---- MODULE Spec2Model ----
EXTENDS Integers, Sequences, FiniteSets, TLC

(***************************************************************************)
(* Bytes, 32-bit words and the CRC-32 of crc32fast::hash.                  *)
(* A u32 is kept as its four big-endian bytes (put_u32 / get_u32 write and *)
(* read big-endian), so that no value exceeds the checker's integers.      *)
(***************************************************************************)
Byte == 0..255

\* p XOR q for two 4-bit values, at XorTable[p + 1][q + 1]
XorTable ==
    <<
      <<0, 1, 2, 3, 4, 5, 6, 7, 8, 9, 10, 11, 12, 13, 14, 15>>,
      <<1, 0, 3, 2, 5, 4, 7, 6, 9, 8, 11, 10, 13, 12, 15, 14>>,
      <<2, 3, 0, 1, 6, 7, 4, 5, 10, 11, 8, 9, 14, 15, 12, 13>>,
      <<3, 2, 1, 0, 7, 6, 5, 4, 11, 10, 9, 8, 15, 14, 13, 12>>,
      <<4, 5, 6, 7, 0, 1, 2, 3, 12, 13, 14, 15, 8, 9, 10, 11>>,
      <<5, 4, 7, 6, 1, 0, 3, 2, 13, 12, 15, 14, 9, 8, 11, 10>>,
      <<6, 7, 4, 5, 2, 3, 0, 1, 14, 15, 12, 13, 10, 11, 8, 9>>,
      <<7, 6, 5, 4, 3, 2, 1, 0, 15, 14, 13, 12, 11, 10, 9, 8>>,
      <<8, 9, 10, 11, 12, 13, 14, 15, 0, 1, 2, 3, 4, 5, 6, 7>>,
      <<9, 8, 11, 10, 13, 12, 15, 14, 1, 0, 3, 2, 5, 4, 7, 6>>,
      <<10, 11, 8, 9, 14, 15, 12, 13, 2, 3, 0, 1, 6, 7, 4, 5>>,
      <<11, 10, 9, 8, 15, 14, 13, 12, 3, 2, 1, 0, 7, 6, 5, 4>>,
      <<12, 13, 14, 15, 8, 9, 10, 11, 4, 5, 6, 7, 0, 1, 2, 3>>,
      <<13, 12, 15, 14, 9, 8, 11, 10, 5, 4, 7, 6, 1, 0, 3, 2>>,
      <<14, 15, 12, 13, 10, 11, 8, 9, 6, 7, 4, 5, 2, 3, 0, 1>>,
      <<15, 14, 13, 12, 11, 10, 9, 8, 7, 6, 5, 4, 3, 2, 1, 0>>
    >>

ByteXor(a, b) ==
    XorTable[(a \div 16) + 1][(b \div 16) + 1] * 16 + XorTable[(a % 16) + 1][(b % 16) + 1]

WordXor(x, y) ==
    <<ByteXor(x[1], y[1]), ByteXor(x[2], y[2]), ByteXor(x[3], y[3]), ByteXor(x[4], y[4])>>

\* x >> 8 on a big-endian 4-byte word
WordShr8(x) == <<0, x[1], x[2], x[3]>>

\* The CRC-32 table of the reflected polynomial 0xEDB88320: entry b + 1 is byte
\* b shifted out through the polynomial eight times.
CrcTable ==
    <<
      <<0, 0, 0, 0>>, <<119, 7, 48, 150>>, <<238, 14, 97, 44>>, <<153, 9, 81, 186>>,
      <<7, 109, 196, 25>>, <<112, 106, 244, 143>>, <<233, 99, 165, 53>>, <<158, 100, 149, 163>>,
      <<14, 219, 136, 50>>, <<121, 220, 184, 164>>, <<224, 213, 233, 30>>, <<151, 210, 217, 136>>,
      <<9, 182, 76, 43>>, <<126, 177, 124, 189>>, <<231, 184, 45, 7>>, <<144, 191, 29, 145>>,
      <<29, 183, 16, 100>>, <<106, 176, 32, 242>>, <<243, 185, 113, 72>>, <<132, 190, 65, 222>>,
      <<26, 218, 212, 125>>, <<109, 221, 228, 235>>, <<244, 212, 181, 81>>, <<131, 211, 133, 199>>,
      <<19, 108, 152, 86>>, <<100, 107, 168, 192>>, <<253, 98, 249, 122>>, <<138, 101, 201, 236>>,
      <<20, 1, 92, 79>>, <<99, 6, 108, 217>>, <<250, 15, 61, 99>>, <<141, 8, 13, 245>>,
      <<59, 110, 32, 200>>, <<76, 105, 16, 94>>, <<213, 96, 65, 228>>, <<162, 103, 113, 114>>,
      <<60, 3, 228, 209>>, <<75, 4, 212, 71>>, <<210, 13, 133, 253>>, <<165, 10, 181, 107>>,
      <<53, 181, 168, 250>>, <<66, 178, 152, 108>>, <<219, 187, 201, 214>>, <<172, 188, 249, 64>>,
      <<50, 216, 108, 227>>, <<69, 223, 92, 117>>, <<220, 214, 13, 207>>, <<171, 209, 61, 89>>,
      <<38, 217, 48, 172>>, <<81, 222, 0, 58>>, <<200, 215, 81, 128>>, <<191, 208, 97, 22>>,
      <<33, 180, 244, 181>>, <<86, 179, 196, 35>>, <<207, 186, 149, 153>>, <<184, 189, 165, 15>>,
      <<40, 2, 184, 158>>, <<95, 5, 136, 8>>, <<198, 12, 217, 178>>, <<177, 11, 233, 36>>,
      <<47, 111, 124, 135>>, <<88, 104, 76, 17>>, <<193, 97, 29, 171>>, <<182, 102, 45, 61>>,
      <<118, 220, 65, 144>>, <<1, 219, 113, 6>>, <<152, 210, 32, 188>>, <<239, 213, 16, 42>>,
      <<113, 177, 133, 137>>, <<6, 182, 181, 31>>, <<159, 191, 228, 165>>, <<232, 184, 212, 51>>,
      <<120, 7, 201, 162>>, <<15, 0, 249, 52>>, <<150, 9, 168, 142>>, <<225, 14, 152, 24>>,
      <<127, 106, 13, 187>>, <<8, 109, 61, 45>>, <<145, 100, 108, 151>>, <<230, 99, 92, 1>>,
      <<107, 107, 81, 244>>, <<28, 108, 97, 98>>, <<133, 101, 48, 216>>, <<242, 98, 0, 78>>,
      <<108, 6, 149, 237>>, <<27, 1, 165, 123>>, <<130, 8, 244, 193>>, <<245, 15, 196, 87>>,
      <<101, 176, 217, 198>>, <<18, 183, 233, 80>>, <<139, 190, 184, 234>>, <<252, 185, 136, 124>>,
      <<98, 221, 29, 223>>, <<21, 218, 45, 73>>, <<140, 211, 124, 243>>, <<251, 212, 76, 101>>,
      <<77, 178, 97, 88>>, <<58, 181, 81, 206>>, <<163, 188, 0, 116>>, <<212, 187, 48, 226>>,
      <<74, 223, 165, 65>>, <<61, 216, 149, 215>>, <<164, 209, 196, 109>>, <<211, 214, 244, 251>>,
      <<67, 105, 233, 106>>, <<52, 110, 217, 252>>, <<173, 103, 136, 70>>, <<218, 96, 184, 208>>,
      <<68, 4, 45, 115>>, <<51, 3, 29, 229>>, <<170, 10, 76, 95>>, <<221, 13, 124, 201>>,
      <<80, 5, 113, 60>>, <<39, 2, 65, 170>>, <<190, 11, 16, 16>>, <<201, 12, 32, 134>>,
      <<87, 104, 181, 37>>, <<32, 111, 133, 179>>, <<185, 102, 212, 9>>, <<206, 97, 228, 159>>,
      <<94, 222, 249, 14>>, <<41, 217, 201, 152>>, <<176, 208, 152, 34>>, <<199, 215, 168, 180>>,
      <<89, 179, 61, 23>>, <<46, 180, 13, 129>>, <<183, 189, 92, 59>>, <<192, 186, 108, 173>>,
      <<237, 184, 131, 32>>, <<154, 191, 179, 182>>, <<3, 182, 226, 12>>, <<116, 177, 210, 154>>,
      <<234, 213, 71, 57>>, <<157, 210, 119, 175>>, <<4, 219, 38, 21>>, <<115, 220, 22, 131>>,
      <<227, 99, 11, 18>>, <<148, 100, 59, 132>>, <<13, 109, 106, 62>>, <<122, 106, 90, 168>>,
      <<228, 14, 207, 11>>, <<147, 9, 255, 157>>, <<10, 0, 174, 39>>, <<125, 7, 158, 177>>,
      <<240, 15, 147, 68>>, <<135, 8, 163, 210>>, <<30, 1, 242, 104>>, <<105, 6, 194, 254>>,
      <<247, 98, 87, 93>>, <<128, 101, 103, 203>>, <<25, 108, 54, 113>>, <<110, 107, 6, 231>>,
      <<254, 212, 27, 118>>, <<137, 211, 43, 224>>, <<16, 218, 122, 90>>, <<103, 221, 74, 204>>,
      <<249, 185, 223, 111>>, <<142, 190, 239, 249>>, <<23, 183, 190, 67>>, <<96, 176, 142, 213>>,
      <<214, 214, 163, 232>>, <<161, 209, 147, 126>>, <<56, 216, 194, 196>>, <<79, 223, 242, 82>>,
      <<209, 187, 103, 241>>, <<166, 188, 87, 103>>, <<63, 181, 6, 221>>, <<72, 178, 54, 75>>,
      <<216, 13, 43, 218>>, <<175, 10, 27, 76>>, <<54, 3, 74, 246>>, <<65, 4, 122, 96>>,
      <<223, 96, 239, 195>>, <<168, 103, 223, 85>>, <<49, 110, 142, 239>>, <<70, 105, 190, 121>>,
      <<203, 97, 179, 140>>, <<188, 102, 131, 26>>, <<37, 111, 210, 160>>, <<82, 104, 226, 54>>,
      <<204, 12, 119, 149>>, <<187, 11, 71, 3>>, <<34, 2, 22, 185>>, <<85, 5, 38, 47>>,
      <<197, 186, 59, 190>>, <<178, 189, 11, 40>>, <<43, 180, 90, 146>>, <<92, 179, 106, 4>>,
      <<194, 215, 255, 167>>, <<181, 208, 207, 49>>, <<44, 217, 158, 139>>, <<91, 222, 174, 29>>,
      <<155, 100, 194, 176>>, <<236, 99, 242, 38>>, <<117, 106, 163, 156>>, <<2, 109, 147, 10>>,
      <<156, 9, 6, 169>>, <<235, 14, 54, 63>>, <<114, 7, 103, 133>>, <<5, 0, 87, 19>>,
      <<149, 191, 74, 130>>, <<226, 184, 122, 20>>, <<123, 177, 43, 174>>, <<12, 182, 27, 56>>,
      <<146, 210, 142, 155>>, <<229, 213, 190, 13>>, <<124, 220, 239, 183>>, <<11, 219, 223, 33>>,
      <<134, 211, 210, 212>>, <<241, 212, 226, 66>>, <<104, 221, 179, 248>>, <<31, 218, 131, 110>>,
      <<129, 190, 22, 205>>, <<246, 185, 38, 91>>, <<111, 176, 119, 225>>, <<24, 183, 71, 119>>,
      <<136, 8, 90, 230>>, <<255, 15, 106, 112>>, <<102, 6, 59, 202>>, <<17, 1, 11, 92>>,
      <<143, 101, 158, 255>>, <<248, 98, 174, 105>>, <<97, 107, 255, 211>>, <<22, 108, 207, 69>>,
      <<160, 10, 226, 120>>, <<215, 13, 210, 238>>, <<78, 4, 131, 84>>, <<57, 3, 179, 194>>,
      <<167, 103, 38, 97>>, <<208, 96, 22, 247>>, <<73, 105, 71, 77>>, <<62, 110, 119, 219>>,
      <<174, 209, 106, 74>>, <<217, 214, 90, 220>>, <<64, 223, 11, 102>>, <<55, 216, 59, 240>>,
      <<169, 188, 174, 83>>, <<222, 187, 158, 197>>, <<71, 178, 207, 127>>, <<48, 181, 255, 233>>,
      <<189, 189, 242, 28>>, <<202, 186, 194, 138>>, <<83, 179, 147, 48>>, <<36, 180, 163, 166>>,
      <<186, 208, 54, 5>>, <<205, 215, 6, 147>>, <<84, 222, 87, 41>>, <<35, 217, 103, 191>>,
      <<179, 102, 122, 46>>, <<196, 97, 74, 184>>, <<93, 104, 27, 2>>, <<42, 111, 43, 148>>,
      <<180, 11, 190, 55>>, <<195, 12, 142, 161>>, <<90, 5, 223, 27>>, <<45, 2, 239, 141>>
    >>

\* one byte: crc = table[(crc ^ byte) & 0xFF] ^ (crc >> 8), the table-driven
\* step of the baseline implementation of crc32fast
CrcStep(c, b) == WordXor(CrcTable[ByteXor(c[4], b) + 1], WordShr8(c))

\* the register after the first n bytes (the register of the shorter prefix is
\* bound through a singleton set, so that it is a value before the step uses it)
RECURSIVE CrcUpdate(_, _)
CrcUpdate(bytes, n) ==
    IF n = 0 THEN <<255, 255, 255, 255>>
    ELSE IF n % 4 # 0
    THEN CHOOSE r \in {CrcStep(c, bytes[n]) : c \in {CrcUpdate(bytes, n - 1)}} : TRUE
    ELSE CHOOSE r \in {CrcStep(CrcStep(CrcStep(CrcStep(c, bytes[n - 3]), bytes[n - 2]),
                                       bytes[n - 1]), bytes[n]) :
                       c \in {CrcUpdate(bytes, n - 4)}} : TRUE

\* crc32fast::hash(bytes): init 0xFFFFFFFF, final xor 0xFFFFFFFF
Crc32(bytes) == WordXor(CrcUpdate(bytes, Len(bytes)), <<255, 255, 255, 255>>)

(***************************************************************************)
(* ManifestRecord and its serde_json encoding.  The model writes the two   *)
(* newtype variants Flush(usize) and NewMemtable(usize); serde_json writes *)
(* an externally tagged newtype variant as {"Tag":value}.                  *)
(***************************************************************************)
ManifestRecord == {[tag |-> "Flush", id |-> 7], [tag |-> "NewMemtable", id |-> 12]}

TagBytes(tag) ==
    IF tag = "Flush" THEN <<70, 108, 117, 115, 104>>
    ELSE <<78, 101, 119, 77, 101, 109, 116, 97, 98, 108, 101>>

\* the decimal digits of n, as serde_json (itoa) writes an unsigned integer
RECURSIVE Itoa(_)
Itoa(n) == IF n < 10 THEN <<48 + n>> ELSE Itoa(n \div 10) \o <<48 + (n % 10)>>

\* serde_json::to_vec(&record)
ToVec(r) == <<123, 34>> \o TagBytes(r.tag) \o <<34, 58>> \o Itoa(r.id) \o <<125>>

IsWs(b) == b \in {32, 9, 10, 13}

IsDigit(b) == b \in 48..57

RECURSIVE SkipWs(_, _)
SkipWs(s, i) == IF i <= Len(s) /\ IsWs(s[i]) THEN SkipWs(s, i + 1) ELSE i

\* index of the byte that ends a JSON string whose text starts at i: the first
\* quote, backslash or control byte (Len(s) + 1 when the input ends first)
RECURSIVE StrEnd(_, _)
StrEnd(s, i) ==
    IF i > Len(s) \/ s[i] \in {34, 92} \/ s[i] < 32 THEN i ELSE StrEnd(s, i + 1)

RECURSIVE DigitsEnd(_, _)
DigitsEnd(s, i) == IF i <= Len(s) /\ IsDigit(s[i]) THEN DigitsEnd(s, i + 1) ELSE i

RECURSIVE Atoi(_, _, _)
Atoi(s, i, j) == IF j < i THEN 0 ELSE 10 * Atoi(s, i, j - 1) + (s[j] - 48)

ParseErr == [ok |-> FALSE, rec |-> [tag |-> "", id |-> 0]]

\* serde_json::from_slice::<ManifestRecord>(s): an externally tagged enum is a
\* map with one key, the variant name, and the variant's value; white space is
\* allowed between tokens and after the value, nothing else may follow.  A key
\* with an escape or a control byte never spells a variant name, a number with
\* a sign, a leading zero, a fraction or an exponent is no usize: all errors.
FromSlice(s) ==
    LET a == SkipWs(s, 1)
        b == SkipWs(s, a + 1)
        q == StrEnd(s, b + 1)
        c == SkipWs(s, q + 1)
        d == SkipWs(s, c + 1)
        e == DigitsEnd(s, d)
        f == SkipWs(s, e)
        g == SkipWs(s, f + 1)
        key == SubSeq(s, b + 1, q - 1)
    IN  IF /\ a <= Len(s) /\ s[a] = 123
           /\ b <= Len(s) /\ s[b] = 34
           /\ q <= Len(s) /\ s[q] = 34
           /\ key \in {TagBytes("Flush"), TagBytes("NewMemtable")}
           /\ c <= Len(s) /\ s[c] = 58
           /\ e > d
           /\ (s[d] = 48 => e = d + 1)
           /\ e - d <= 8
           /\ f <= Len(s) /\ s[f] = 125
           /\ g = Len(s) + 1
        THEN [ok |-> TRUE,
              rec |-> [tag |-> IF key = TagBytes("Flush") THEN "Flush" ELSE "NewMemtable",
                       id |-> Atoi(s, d, e - 1)]]
        ELSE ParseErr

\* put_u32(n): four bytes, big-endian
PutU32(n) == <<n \div 16777216, (n \div 65536) % 256, (n \div 256) % 256, n % 256>>

\* get_u32() as usize; a value of 2^24 or more exceeds every file of the model
\* and is kept as 2^24
GetU32(w) == IF w[1] > 0 THEN 16777216 ELSE w[2] * 65536 + w[3] * 256 + w[4]

\* the frame | len | JSON record | checksum | of add_record_when_init
Encoded(r) ==
    LET json_encoded == ToVec(r)
    IN  PutU32(Len(json_encoded)) \o json_encoded \o Crc32(json_encoded)

RECURSIVE FramesOf(_)
FramesOf(recs) ==
    IF recs = <<>> THEN <<>> ELSE Encoded(Head(recs)) \o FramesOf(Tail(recs))

(***************************************************************************)
(* The replay loop of Manifest::recover over the bytes read from the file. *)
(* get_u32 on fewer than four bytes and a slice beyond the buffer panic;   *)
(* a serde_json error and a checksum mismatch return Err.                  *)
(***************************************************************************)
Outcome(kind, records) == [kind |-> kind, records |-> records]

\* a replay that takes every checksum for good
ChecksumUnchecked(checksum, raw_record) == TRUE

\* checksum != crc32fast::hash(raw_record) bails
ChecksumMatches(checksum, raw_record) == checksum = Crc32(raw_record)

RECURSIVE Replay(_, _, _)
Replay(buf, pos, records) ==
    LET remaining == Len(buf) - pos + 1
    IN  IF remaining = 0 THEN Outcome("Ok", records)
        ELSE IF remaining < 4 THEN Outcome("Panic", <<>>)
        ELSE
          LET record_len == GetU32(SubSeq(buf, pos, pos + 3))
              start == pos + 4
          IN  IF record_len > remaining - 4 THEN Outcome("Panic", <<>>)
              ELSE
                LET raw_record == SubSeq(buf, start, start + record_len - 1)
                    record == FromSlice(raw_record)
                    after == start + record_len
                IN  IF ~record.ok THEN Outcome("Err", <<>>)
                    ELSE IF Len(buf) - after + 1 < 4 THEN Outcome("Panic", <<>>)
                    ELSE IF ~ChecksumMatches(SubSeq(buf, after, after + 3), raw_record)
                         THEN Outcome("Err", <<>>)
                    ELSE Replay(buf, after + 4, Append(records, record.rec))

RecoverBytes(buf) == Replay(buf, 1, <<>>)

(***************************************************************************)
(* The Manifest: one file behind one mutex, written by several threads.    *)
(***************************************************************************)
NumThreads == 2

MaxAppends == 2

Threads == 1..NumThreads

NoThread == 0

NoRecord == [tag |-> "", id |-> 0]

NoResult == Outcome("None", <<>>)

\* a parking_lot::Mutex<()> whose guard a caller can hand to add_record: the
\* engine's state lock, or any other Mutex<()>, such as one the caller made
Mutexes == {"state", "own"}

VARIABLES
    file,         \* the bytes of the manifest file
    durable,      \* how many of them sync_all has forced to stable storage
    handle,       \* "open": the process holds a Manifest; "closed": it does not
    fileLock,     \* the thread that holds Manifest.file's mutex, or NoThread
    pc,           \* each thread's place in add_record_when_init
    arg,          \* each thread's record
    encoded,      \* and its frame, once built
    via,          \* the entry point each thread came through
    slot,         \* each thread's entry in log
    log,          \* the write calls that returned Ok, in order: the record, the
                  \* length of its frame (len), the bytes the call wrote (k),
                  \* how many of them the file holds (n) and whether
                  \* add_record* has returned Ok (acked)
    started,      \* the calls of add_record* begun so far
    result,       \* what the last recover returned, until the next call
    guard,        \* the mutex whose guard each thread holds
    mutated,      \* the thread has changed the metadata and not yet logged it
    interleaved,  \* another thread's mutation or append came in between
    corrupted,    \* the frame a byte of which was changed from outside, or 0
    options,      \* TieredCompactionOptions
    levels,       \* LsmStorageState.levels
    task,         \* what generate_compaction_task returned
    applied,      \* what apply_compaction_result returned
    output,       \* the _output handed to apply_compaction_result
    flushes,      \* tiers put in front of the snapshot since the task was made
    rounds,       \* compactions carried out so far
    opened,       \* what the recover that last returned Ok returned, and the file it read
    offsets,      \* BlockBuilder.offsets
    data,         \* BlockBuilder.data
    block_size,   \* BlockBuilder.block_size
    first_key,    \* BlockBuilder.first_key
    added,        \* the pairs add has accepted
    ret,          \* the last call of add: its key, its value and what it returned
    block         \* what build returned

manifestVars == <<file, durable, handle, fileLock, pc, arg, encoded, via, slot, log, started, result>>

engineVars == <<guard, mutated, interleaved>>

tieredVars == <<options, levels, task>>

applyVars == <<applied, output, flushes, rounds>>

blockVars == <<offsets, data, block_size, first_key, added, ret, block>>

vars == <<manifestVars, engineVars, corrupted, opened, tieredVars, applyVars, blockVars>>

NoOptions ==
    [num_tiers |-> 0, max_size_amplification_percent |-> 0, size_ratio |-> 0,
     min_merge_width |-> 0, max_merge_width |-> <<>>]

NoTask == [kind |-> "NotCalled", tiers |-> <<>>, bottom_tier_included |-> FALSE]

NoApplied == [kind |-> "NotCalled", levels |-> <<>>, removed |-> <<>>]

ApplyInit ==
    /\ applied = NoApplied
    /\ output = <<>>
    /\ flushes = 0
    /\ rounds = 0

NoOpened == [kind |-> "None", records |-> <<>>, file |-> <<>>]

NoRet == [calls |-> 0, key |-> <<>>, value |-> <<>>, accepted |-> FALSE]

NoBlock == [kind |-> "NotBuilt", data |-> <<>>, offsets |-> <<>>]

\* BlockBuilder::new: all of a builder but its block_size
BlockInit ==
    /\ offsets = <<>>
    /\ data = <<>>
    /\ first_key = <<>>
    /\ added = <<>>
    /\ ret = NoRet
    /\ block = NoBlock

\* Manifest::create on a new path: an empty file and a handle on it
ManifestInit ==
    /\ file = <<>>
    /\ durable = 0
    /\ handle = "open"
    /\ fileLock = NoThread
    /\ pc = [t \in Threads |-> "idle"]
    /\ arg = [t \in Threads |-> NoRecord]
    /\ encoded = [t \in Threads |-> <<>>]
    /\ via = [t \in Threads |-> "none"]
    /\ slot = [t \in Threads |-> 0]
    /\ log = <<>>
    /\ started = 0
    /\ result = NoResult
    /\ guard = [t \in Threads |-> "none"]
    /\ mutated = [t \in Threads |-> FALSE]
    /\ interleaved = FALSE
    /\ corrupted = 0
    /\ opened = NoOpened

Init ==
    /\ ManifestInit
    /\ options = NoOptions
    /\ levels = <<>>
    /\ task = NoTask
    /\ ApplyInit
    /\ BlockInit
    /\ block_size = 0

\* add_record_when_init, lines 95-99: the record is serialized and framed
AddRecordWhenInit(t, r) ==
    /\ handle = "open"
    /\ pc[t] = "idle"
    /\ guard[t] = "none"
    /\ started < MaxAppends
    /\ pc' = [pc EXCEPT ![t] = "encoded"]
    /\ arg' = [arg EXCEPT ![t] = r]
    /\ encoded' = [encoded EXCEPT ![t] = Encoded(r)]
    /\ via' = [via EXCEPT ![t] = "add_record_when_init"]
    /\ started' = started + 1
    /\ result' = NoResult
    /\ UNCHANGED <<file, durable, handle, fileLock, slot, log, engineVars, corrupted,
                   tieredVars, applyVars, blockVars, opened>>

\* add_record: the caller shows a &MutexGuard<()>, of whichever Mutex<()>, and
\* the call goes on as add_record_when_init
AddRecord(t, r) ==
    /\ handle = "open"
    /\ pc[t] = "idle"
    /\ guard[t] \in Mutexes
    /\ started < MaxAppends
    /\ pc' = [pc EXCEPT ![t] = "encoded"]
    /\ arg' = [arg EXCEPT ![t] = r]
    /\ encoded' = [encoded EXCEPT ![t] = Encoded(r)]
    /\ via' = [via EXCEPT ![t] = "add_record"]
    /\ started' = started + 1
    /\ result' = NoResult
    /\ UNCHANGED <<file, durable, handle, fileLock, slot, log, engineVars, corrupted,
                   tieredVars, applyVars, blockVars, opened>>

\* self.file.lock()
LockFile(t) ==
    /\ pc[t] = "encoded"
    /\ fileLock = NoThread
    /\ fileLock' = t
    /\ pc' = [pc EXCEPT ![t] = "locked"]
    /\ UNCHANGED <<file, durable, handle, arg, encoded, via, slot, log, started, result,
                   engineVars, corrupted, tieredVars, applyVars, blockVars, opened>>

\* file.write(&encoded)?: Write::write makes one attempt and returns Ok(k) for
\* the k bytes it took, 0 < k <= encoded.len(); the code does not look at k
Write(t, k) ==
    /\ pc[t] = "locked"
    /\ k \in 1..Len(encoded[t])
    /\ file' = file \o SubSeq(encoded[t], 1, k)
    /\ log' = Append(log, [rec |-> arg[t], len |-> Len(encoded[t]), k |-> k, n |-> k,
                         acked |-> FALSE])
    /\ slot' = [slot EXCEPT ![t] = Len(log) + 1]
    /\ pc' = [pc EXCEPT ![t] = "written"]
    /\ mutated' = [mutated EXCEPT ![t] = FALSE]
    /\ interleaved' =
         (interleaved \/ (via[t] = "add_record" /\ \E u \in Threads \ {t} : mutated[u]))
    /\ UNCHANGED <<durable, handle, fileLock, arg, encoded, via, started, result, guard,
                   corrupted, tieredVars, applyVars, blockVars, opened>>

\* file.write(&encoded)? returns Err: nothing was written, the guard is dropped
\* and the call returns the error
WriteFails(t) ==
    /\ pc[t] = "locked"
    /\ fileLock' = NoThread
    /\ pc' = [pc EXCEPT ![t] = "idle"]
    /\ mutated' = [mutated EXCEPT ![t] = FALSE]
    /\ UNCHANGED <<file, durable, handle, arg, encoded, via, slot, log, started, result, guard,
                   interleaved, corrupted, tieredVars, applyVars, blockVars, opened>>

\* file.sync_all()? returns Ok: every byte of the file is on stable storage
SyncAll(t) ==
    /\ pc[t] = "written"
    /\ durable' = Len(file)
    /\ pc' = [pc EXCEPT ![t] = "synced"]
    /\ UNCHANGED <<file, handle, fileLock, arg, encoded, via, slot, log, started, result,
                   engineVars, corrupted, tieredVars, applyVars, blockVars, opened>>

\* file.sync_all()? returns Err: the guard is dropped and the call returns it
SyncFails(t) ==
    /\ pc[t] = "written"
    /\ fileLock' = NoThread
    /\ pc' = [pc EXCEPT ![t] = "idle"]
    /\ UNCHANGED <<file, durable, handle, arg, encoded, via, slot, log, started, result,
                   engineVars, corrupted, tieredVars, applyVars, blockVars, opened>>

\* the block ends, the guard is dropped, Ok(()) is returned
ReturnOk(t) ==
    /\ pc[t] = "synced"
    /\ fileLock' = NoThread
    /\ log' = [log EXCEPT ![slot[t]].acked = TRUE]
    /\ pc' = [pc EXCEPT ![t] = "idle"]
    /\ UNCHANGED <<file, durable, handle, arg, encoded, via, slot, started, result, engineVars,
                   corrupted, tieredVars, applyVars, blockVars, opened>>

\* The places where a frame of n bytes is cut in the model: inside the length,
\* after it, inside the record, after the record, inside the checksum, and not
\* at all.
FrameCuts(n) == {c \in {2, 4, 6, n - 4, n - 2, n} : c >= 1 /\ c <= n}

\* the log entries of the first len bytes of the file
RECURSIVE Trim(_, _)
Trim(entries, len) ==
    IF entries = <<>> \/ len = 0 THEN <<>>
    ELSE LET e == Head(entries)
         IN  IF e.n <= len THEN <<e>> \o Trim(Tail(entries), len - e.n)
             ELSE <<[e EXCEPT !.n = len]>>

\* the process dies.  The bytes that sync_all has forced stay; of the bytes
\* written since, a prefix of any length has reached the disk.
Crash(len) ==
    /\ handle = "open"
    /\ len \in durable..Len(file)
    /\ file' = SubSeq(file, 1, len)
    /\ durable' = len
    /\ log' = Trim(log, len)
    /\ handle' = "closed"
    /\ fileLock' = NoThread
    /\ pc' = [t \in Threads |-> "idle"]
    /\ arg' = [t \in Threads |-> NoRecord]
    /\ encoded' = [t \in Threads |-> <<>>]
    /\ via' = [t \in Threads |-> "none"]
    /\ slot' = [t \in Threads |-> 0]
    /\ guard' = [t \in Threads |-> "none"]
    /\ mutated' = [t \in Threads |-> FALSE]
    /\ result' = NoResult
    /\ UNCHANGED <<started, interleaved, corrupted, tieredVars, applyVars, blockVars, opened>>

\* the process ends in good order: no call is under way, the file stays as it is
Exit ==
    /\ handle = "open"
    /\ \A t \in Threads : pc[t] = "idle"
    /\ handle' = "closed"
    /\ arg' = [t \in Threads |-> NoRecord]
    /\ encoded' = [t \in Threads |-> <<>>]
    /\ via' = [t \in Threads |-> "none"]
    /\ slot' = [t \in Threads |-> 0]
    /\ guard' = [t \in Threads |-> "none"]
    /\ mutated' = [t \in Threads |-> FALSE]
    /\ UNCHANGED <<file, durable, fileLock, pc, log, started, result, interleaved,
                   corrupted, tieredVars, applyVars, blockVars, opened>>

\* Manifest::recover(path): the file is read to its end and replayed; Ok gives
\* the process a Manifest on the file, opened for append
Recover ==
    /\ handle = "closed"
    /\ result' = RecoverBytes(file)
    /\ opened' = IF result'.kind = "Ok"
                 THEN [kind |-> "Ok", records |-> result'.records, file |-> file]
                 ELSE opened
    /\ handle' = IF result'.kind = "Ok" THEN "open" ELSE "closed"
    /\ UNCHANGED <<file, durable, fileLock, pc, arg, encoded, via, slot, log, started, engineVars,
                   corrupted, tieredVars, applyVars, blockVars>>

(***************************************************************************)
(* The callers of add_record.  The engine takes its state lock, changes    *)
(* the metadata and logs the change with add_record before it lets go.     *)
(***************************************************************************)
\* Mutex::lock() on the state lock, or on a Mutex<()> of the thread's own
LockMutex(t, m) ==
    /\ handle = "open"
    /\ pc[t] = "idle"
    /\ guard[t] = "none"
    /\ m = "state" => \A u \in Threads : guard[u] # "state"
    /\ guard' = [guard EXCEPT ![t] = m]
    /\ UNCHANGED <<manifestVars, mutated, interleaved, corrupted, tieredVars, applyVars, blockVars, opened>>

\* the holder of the state lock changes the metadata
Mutate(t) ==
    /\ handle = "open"
    /\ pc[t] = "idle"
    /\ guard[t] = "state"
    /\ ~mutated[t]
    /\ started < MaxAppends
    /\ mutated' = [mutated EXCEPT ![t] = TRUE]
    /\ interleaved' = (interleaved \/ \E u \in Threads \ {t} : mutated[u])
    /\ UNCHANGED <<manifestVars, guard, corrupted, tieredVars, applyVars, blockVars, opened>>

\* the guard is dropped
UnlockMutex(t) ==
    /\ pc[t] = "idle"
    /\ guard[t] \in Mutexes
    /\ ~mutated[t]
    /\ guard' = [guard EXCEPT ![t] = "none"]
    /\ UNCHANGED <<manifestVars, mutated, interleaved, corrupted, tieredVars, applyVars, blockVars, opened>>

(***************************************************************************)
(* Damage from outside: one byte of one record's serialized bytes changes  *)
(* while no process has the file open and the file is a whole log.         *)
(***************************************************************************)
WholeLog == \A i \in 1..Len(log) : log[i].n = log[i].len

RECURSIVE FrameStart(_)
FrameStart(i) == IF i = 1 THEN 1 ELSE FrameStart(i - 1) + log[i - 1].n

\* byte j of the serialized record of frame i becomes v
CorruptByte ==
    /\ handle = "closed"
    /\ corrupted = 0
    /\ WholeLog
    /\ \E i \in 1..Len(log) :
         \E j \in 1..(log[i].len - 8) :
           \E v \in Byte \ {file[FrameStart(i) + 3 + j]} :
             /\ file' = [file EXCEPT ![FrameStart(i) + 3 + j] = v]
             /\ corrupted' = i
    /\ result' = NoResult
    /\ UNCHANGED <<durable, handle, fileLock, pc, arg, encoded, via, slot, log, started,
                   engineVars, tieredVars, applyVars, blockVars, opened>>

Next ==
    \/ \E t \in Threads, r \in ManifestRecord : AddRecordWhenInit(t, r)
    \/ \E t \in Threads : LockFile(t)
    \/ \E t \in Threads : \E k \in FrameCuts(Len(encoded[t])) : Write(t, k)
    \/ \E t \in Threads : WriteFails(t)
    \/ \E t \in Threads : SyncAll(t)
    \/ \E t \in Threads : SyncFails(t)
    \/ \E t \in Threads : ReturnOk(t)
    \/ \E c \in {0} \cup FrameCuts(Len(file) - durable) : Crash(durable + c)
    \/ Exit
    \/ Recover

Spec == Init /\ [][Next]_vars

\* the runs in which records are written, the process ends, the file is
\* damaged and then recovered
NextCorrupt ==
    \/ \E t \in Threads, r \in ManifestRecord : opened = NoOpened /\ AddRecordWhenInit(t, r)
    \/ \E t \in Threads : LockFile(t)
    \/ \E t \in Threads : \E k \in FrameCuts(Len(encoded[t])) : Write(t, k)
    \/ \E t \in Threads : SyncAll(t)
    \/ \E t \in Threads : ReturnOk(t)
    \/ Exit
    \/ CorruptByte
    \/ Recover

SpecCorrupt == Init /\ [][NextCorrupt]_vars

NextEngine ==
    \/ \E t \in Threads, m \in Mutexes : LockMutex(t, m)
    \/ \E t \in Threads : Mutate(t)
    \/ \E t \in Threads, r \in ManifestRecord : AddRecord(t, r)
    \/ \E t \in Threads : LockFile(t)
    \/ \E t \in Threads : \E k \in FrameCuts(Len(encoded[t])) : Write(t, k)
    \/ \E t \in Threads : WriteFails(t)
    \/ \E t \in Threads : SyncAll(t)
    \/ \E t \in Threads : SyncFails(t)
    \/ \E t \in Threads : ReturnOk(t)
    \/ \E t \in Threads : UnlockMutex(t)

SpecEngine == Init /\ [][NextEngine]_vars

(***************************************************************************)
(* f64 arithmetic of the compaction controller.  A finite positive f64 is  *)
(* (1 + m / 2^52) * 2^e; its 52 fraction bits m are kept as four limbs of  *)
(* 13 bits, most significant first.  The controller only makes values      *)
(* that are zero, positive, +infinity or NaN.  Every operand of a division *)
(* in the source is the conversion of a usize (a table count, a sum of     *)
(* table counts, 100 + size_ratio): an integer far below 2^53, which the   *)
(* conversion represents exactly, so F64Div takes its operands as integers *)
(* and rounds the quotient to nearest, ties to even, as the hardware does. *)
(***************************************************************************)
Limb == 2^13

F64Zero == [cls |-> "zero", e |-> 0, m |-> <<0, 0, 0, 0>>]

F64Inf == [cls |-> "inf", e |-> 0, m |-> <<0, 0, 0, 0>>]

F64NaN == [cls |-> "nan", e |-> 0, m |-> <<0, 0, 0, 0>>]

F64Num(e, m) == [cls |-> "num", e |-> e, m |-> m]

\* floor(log2(n)) for 1 <= n < 2^20
Log2(n) == CHOOSE k \in 0..19 : 2^k <= n /\ n < 2^(k + 1)

\* the fraction limbs plus one unit in the last place; the exponent grows when
\* the fraction wraps
F64Up(e, m) ==
    IF m[4] + 1 < Limb THEN F64Num(e, <<m[1], m[2], m[3], m[4] + 1>>)
    ELSE IF m[3] + 1 < Limb THEN F64Num(e, <<m[1], m[2], m[3] + 1, 0>>)
    ELSE IF m[2] + 1 < Limb THEN F64Num(e, <<m[1], m[2] + 1, 0, 0>>)
    ELSE IF m[1] + 1 < Limb THEN F64Num(e, <<m[1] + 1, 0, 0, 0>>)
    ELSE F64Num(e + 1, <<0, 0, 0, 0>>)

\* round to nearest, ties to even: rem of den is what the kept bits leave out
F64Round(e, m, rem, den) ==
    IF 2 * rem > den \/ (2 * rem = den /\ m[4] % 2 = 1) THEN F64Up(e, m)
    ELSE F64Num(e, m)

\* the next 13 quotient bits of r / b, for r < b < 2^20
DivDigit(r, b) ==
    LET q1 == (r * 64) \div b
        r1 == (r * 64) % b
    IN  [q |-> q1 * 128 + ((r1 * 128) \div b), r |-> (r1 * 128) % b]

\* a as f64 / b as f64
F64Div(a, b) ==
    IF b = 0 THEN (IF a = 0 THEN F64NaN ELSE F64Inf)
    ELSE IF a = 0 THEN F64Zero
    ELSE LET ka == Log2(a)
             kb == Log2(b)
             a1 == IF ka < kb THEN a * 2^(kb - ka) ELSE a
             b1 == IF ka > kb THEN b * 2^(ka - kb) ELSE b
             \* a1 and b1 have the same bit length: a1 / b1 is in (1/2, 2)
             a2 == IF a1 < b1 THEN 2 * a1 ELSE a1
             e  == IF a1 < b1 THEN ka - kb - 1 ELSE ka - kb
             d1 == DivDigit(a2 - b1, b1)
             d2 == DivDigit(d1.r, b1)
             d3 == DivDigit(d2.r, b1)
             d4 == DivDigit(d3.r, b1)
         IN  F64Round(e, <<d1.q, d2.q, d3.q, d4.q>>, d4.r, b1)

\* n as f64, for n < 2^13
F64FromUsize(n) == F64Div(n, 1)

\* x * (n as f64), for 1 <= n < 2^13
F64Mul(x, n) ==
    IF x.cls # "num" THEN x
    ELSE LET p4 == x.m[4] * n
             p3 == x.m[3] * n + (p4 \div Limb)
             p2 == x.m[2] * n + (p3 \div Limb)
             p1 == x.m[1] * n + (p2 \div Limb)
             t  == n + (p1 \div Limb)
             s  == Log2(t)
             w  == 2^s
             up == Limb \div w
             l1 == (t % w) * up + ((p1 % Limb) \div w)
             l2 == (p1 % w) * up + ((p2 % Limb) \div w)
             l3 == (p2 % w) * up + ((p3 % Limb) \div w)
             l4 == (p3 % w) * up + ((p4 % Limb) \div w)
         IN  F64Round(x.e + s, <<l1, l2, l3, l4>>, p4 % w, w)

\* m1 < m2 for fraction limbs
FractionLess(m1, m2) ==
    \E i \in 1..4 : m1[i] < m2[i] /\ \A j \in 1..(i - 1) : m1[j] = m2[j]

\* x > y; a comparison with NaN is false
F64Gt(x, y) ==
    IF x.cls = "nan" \/ y.cls = "nan" THEN FALSE
    ELSE IF x.cls = "inf" THEN y.cls # "inf"
    ELSE IF y.cls = "inf" THEN FALSE
    ELSE IF x.cls = "zero" THEN FALSE
    ELSE IF y.cls = "zero" THEN TRUE
    ELSE x.e > y.e \/ (x.e = y.e /\ FractionLess(y.m, x.m))

\* x >= y
F64Ge(x, y) ==
    IF x.cls = "nan" \/ y.cls = "nan" THEN FALSE ELSE ~F64Gt(y, x)

(***************************************************************************)
(* TieredCompactionController.  A snapshot's levels are a sequence of       *)
(* <<tier_id, files>>; indices of the source count from 0, positions of a  *)
(* sequence from 1.  An Option<usize> is a sequence of no or one element.  *)
(***************************************************************************)
MaxTiers == 3

TierSizes == {0, 1, 5, 10, 23, 25, 50}

\* the tier at position i of a snapshot, holding n tables
Tier(i, n) == <<100 * i, [j \in 1..n |-> 100 * i + j]>>

Snapshots ==
    UNION {{[i \in 1..n |-> Tier(i, sz[i])] : sz \in [1..n -> TierSizes]} : n \in 0..MaxTiers}

TieredCompactionOptions ==
    [num_tiers : {0, 2, 3},
     max_size_amplification_percent : {200, 460},
     size_ratio : {50, 100},
     min_merge_width : {0, 2},
     max_merge_width : {<<>>, <<0>>, <<1>>, <<2>>}]

SomeTask(tiers, bottom) == [kind |-> "Some", tiers |-> tiers, bottom_tier_included |-> bottom]

NoneTask == [kind |-> "None", tiers |-> <<>>, bottom_tier_included |-> FALSE]

PanicTask == [kind |-> "Panic", tiers |-> <<>>, bottom_tier_included |-> FALSE]

\* _snapshot.levels[id].1.len()
TierLen(lv, id) == Len(lv[id + 1][2])

\* lines 54-57: the tables of the tiers 0..n-1
RECURSIVE SumLen(_, _)
SumLen(lv, n) == IF n = 0 THEN 0 ELSE SumLen(lv, n - 1) + TierLen(lv, n - 1)

\* lines 59-60
SpaceAmpRatio(lv) ==
    F64Mul(F64Div(SumLen(lv, Len(lv) - 1), TierLen(lv, Len(lv) - 1)), 100)

\* line 61
SpaceAmpFires(opts, lv) ==
    F64Ge(SpaceAmpRatio(lv), F64FromUsize(opts.max_size_amplification_percent))

\* line 73
SizeRatioTrigger(opts) == F64Div(100 + opts.size_ratio, 100)

\* a scan that forgets the merge width
SizeRatioFiresAnyWidth(opts, current_size, prev_size, i) ==
    F64Gt(F64Div(current_size, prev_size), SizeRatioTrigger(opts))

\* lines 78-79
SizeRatioFires(opts, current_size, prev_size, i) ==
    /\ F64Gt(F64Div(current_size, prev_size), SizeRatioTrigger(opts))
    /\ i >= opts.min_merge_width

\* lines 75-92: the index at which the scan returns, 0 when it runs to its end
RECURSIVE SizeRatioScan(_, _, _, _)
SizeRatioScan(opts, lv, i, prev_size) ==
    IF i >= Len(lv) THEN 0
    ELSE IF SizeRatioFires(opts, TierLen(lv, i), prev_size, i) THEN i
    ELSE SizeRatioScan(opts, lv, i + 1, prev_size + TierLen(lv, i))

\* a fallback that forgets the cap of max_merge_width
MaxMergeItersUncapped(opts, lv) == Len(lv)

\* lines 97-101: usize::MAX.min(len) is len
MaxMergeIters(opts, lv) ==
    IF opts.max_merge_width = <<>> THEN Len(lv)
    ELSE IF opts.max_merge_width[1] < Len(lv) THEN opts.max_merge_width[1]
    ELSE Len(lv)

\* generate_compaction_task.  Without a tier, levels.len() - 1 at line 55
\* overflows: a panic where overflow is checked, and where it wraps the loop's
\* levels[0] is out of bounds, a panic too.
GenerateCompactionTask(opts, lv) ==
    IF Len(lv) < opts.num_tiers THEN NoneTask
    ELSE IF Len(lv) = 0 THEN PanicTask
    ELSE IF SpaceAmpFires(opts, lv) THEN SomeTask(lv, TRUE)
    ELSE LET i == SizeRatioScan(opts, lv, 1, TierLen(lv, 0))
         IN  IF i # 0 THEN SomeTask(SubSeq(lv, 1, i), FALSE)
             ELSE SomeTask(SubSeq(lv, 1, MaxMergeIters(opts, lv)),
                           MaxMergeIters(opts, lv) >= Len(lv))

\* a controller is made with some options and is handed some snapshot
TieredInit ==
    /\ ManifestInit
    /\ options \in TieredCompactionOptions
    /\ levels \in Snapshots
    /\ task = NoTask
    /\ ApplyInit
    /\ BlockInit
    /\ block_size = 0

Generate ==
    /\ task = NoTask
    /\ task' = GenerateCompactionTask(options, levels)
    /\ UNCHANGED <<manifestVars, engineVars, corrupted, opened, blockVars, options, levels, applyVars>>

NextTiered == Generate

SpecTiered == TieredInit /\ [][NextTiered]_vars

(***************************************************************************)
(* apply_compaction_result.  tier_to_remove, the HashMap of the task's     *)
(* tiers, is a function from tier ids to file lists; of two task tiers     *)
(* with one id the later one stays in the map.                             *)
(***************************************************************************)
AppliedOk(new_levels, to_be_removed) ==
    [kind |-> "Ok", levels |-> new_levels, removed |-> to_be_removed]

AppliedPanic == [kind |-> "Panic", levels |-> <<>>, removed |-> <<>>]

\* lines 124-128
TierToRemove(tiers) ==
    [id \in {tiers[k][1] : k \in 1..Len(tiers)} |->
        tiers[CHOOSE k \in 1..Len(tiers) :
                 tiers[k][1] = id /\ \A j \in (k + 1)..Len(tiers) : tiers[j][1] # id][2]]

\* HashMap::remove
MapRemove(map, id) == [x \in DOMAIN map \ {id} |-> map[x]]

\* a walk that takes the task's word for the files of a tier
FilesUnchecked(files, ffiles) == TRUE

\* line 133: assert_eq!(files, ffiles)
FilesAgree(files, ffiles) == files = ffiles

\* lines 130-152: the walk over snapshot.levels from position i on
RECURSIVE ApplyWalk(_, _, _, _, _, _, _)
ApplyWalk(lv, i, tier_to_remove, new_tier_added, to_be_removed, new_levels, out) ==
    IF i > Len(lv)
    THEN IF DOMAIN tier_to_remove # {} THEN AppliedPanic
         ELSE AppliedOk(new_levels, to_be_removed)
    ELSE LET tier_id == lv[i][1]
             files   == lv[i][2]
             found   == tier_id \in DOMAIN tier_to_remove
             map     == IF found THEN MapRemove(tier_to_remove, tier_id) ELSE tier_to_remove
             removed == IF found THEN to_be_removed \o files ELSE to_be_removed
             kept    == IF found THEN new_levels ELSE Append(new_levels, lv[i])
             splice  == DOMAIN map = {} /\ ~new_tier_added
         IN  IF found /\ ~FilesAgree(files, tier_to_remove[tier_id]) THEN AppliedPanic
             ELSE IF splice /\ out = <<>> THEN AppliedPanic
             ELSE ApplyWalk(lv, i + 1, map, new_tier_added \/ splice, removed,
                            IF splice THEN Append(kept, <<out[1], out>>) ELSE kept, out)

ApplyCompactionResult(lv, tk, out) ==
    ApplyWalk(lv, 1, TierToRemove(tk.tiers), FALSE, <<>>, <<>>, out)

\* snapshots, tasks and outputs handed to apply_compaction_result
MaxApplyTiers == 3

MaxTaskTiers == 3

ApplyTierSizes == {0, 2}

ApplySnapshots ==
    UNION {{[i \in 1..n |-> Tier(i, sz[i])] : sz \in [1..n -> ApplyTierSizes]} :
              n \in 0..MaxApplyTiers}

\* the tasks whose tiers are tiers of lv, each at most once, in any order
MatchingTasks(lv) ==
    UNION {{[k \in 1..n |-> lv[p[k]]] :
               p \in {q \in [1..n -> 1..Len(lv)] : \A j, k \in 1..n : j # k => q[j] # q[k]}} :
              n \in 0..MaxTaskTiers}

\* tiers with another file list for its k-th tier
Altered(tiers, k) == [tiers EXCEPT ![k] = <<tiers[k][1], tiers[k][2] \o <<999>>>>]

\* the matching tasks, those with one tier whose file list differs, and those
\* with one tier more that lv lacks
TaskInputs(lv) ==
    MatchingTasks(lv)
        \cup UNION {{Altered(tiers, k) : k \in 1..Len(tiers)} : tiers \in MatchingTasks(lv)}
        \cup {Append(tiers, <<900, <<901>>>>) :
                 tiers \in {m \in MatchingTasks(lv) : Len(m) < MaxTaskTiers}}

Outputs == {<<>>, <<2001>>, <<2001, 2002>>}

ApplyOnlyInit ==
    /\ ManifestInit
    /\ options = NoOptions
    /\ levels \in ApplySnapshots
    /\ task = NoTask
    /\ ApplyInit
    /\ BlockInit
    /\ block_size = 0

\* a task comes to the caller of apply_compaction_result
Take(tiers) ==
    /\ task = NoTask
    /\ task' = SomeTask(tiers, FALSE)
    /\ UNCHANGED <<manifestVars, engineVars, corrupted, opened, blockVars, options, levels, applyVars>>

\* an apply that changes the snapshot it was handed
ApplyInPlace(out) ==
    /\ task.kind = "Some"
    /\ applied = NoApplied
    /\ applied' = ApplyCompactionResult(levels, task, out)
    /\ output' = out
    /\ levels' = applied'.levels
    /\ UNCHANGED <<manifestVars, engineVars, corrupted, opened, blockVars, options, task, flushes, rounds>>

\* line 118 clones the snapshot behind the & it was handed; the result is a value
Apply(out) ==
    /\ task.kind = "Some"
    /\ applied = NoApplied
    /\ applied' = ApplyCompactionResult(levels, task, out)
    /\ output' = out
    /\ UNCHANGED <<manifestVars, engineVars, corrupted, opened, blockVars, tieredVars, flushes, rounds>>

NextApply ==
    \/ Generate
    \/ \E tiers \in TaskInputs(levels) : Take(tiers)
    \/ \E out \in Outputs : Apply(out)

SpecApply == ApplyOnlyInit /\ [][NextApply]_vars

(***************************************************************************)
(* The compaction loop of the engine around the controller: a task is made *)
(* from the live snapshot, flushes put new tiers in front of it, the task  *)
(* is applied and the result becomes the live snapshot.                    *)
(***************************************************************************)
MaxFlushes == 2

MaxRounds == 2

LoopOptions ==
    [num_tiers : {0, 2},
     max_size_amplification_percent : {200},
     size_ratio : {100},
     min_merge_width : {1, 2},
     max_merge_width : {<<>>, <<0>>, <<1>>, <<2>>}]

\* the table ids of the tables a compaction writes in this round
LoopOutputs == {[j \in 1..n |-> 2000 + 10 * rounds + j] : n \in 1..2}

LoopInit ==
    /\ ManifestInit
    /\ options \in LoopOptions
    /\ levels \in ApplySnapshots
    /\ task = NoTask
    /\ ApplyInit
    /\ BlockInit
    /\ block_size = 0

\* a flushed table becomes a new tier in front of the snapshot
Flush ==
    /\ task.kind = "Some"
    /\ applied = NoApplied
    /\ flushes < MaxFlushes
    /\ levels' = <<<<1000 + 10 * rounds + flushes + 1,
                    <<1000 + 10 * rounds + flushes + 1>>>>>> \o levels
    /\ flushes' = flushes + 1
    /\ UNCHANGED <<manifestVars, engineVars, corrupted, opened, blockVars, options, task, applied, output, rounds>>

\* the new snapshot becomes the live one
Install ==
    /\ applied.kind = "Ok"
    /\ rounds < MaxRounds
    /\ levels' = applied.levels
    /\ task' = NoTask
    /\ applied' = NoApplied
    /\ output' = <<>>
    /\ flushes' = 0
    /\ rounds' = rounds + 1
    /\ UNCHANGED <<manifestVars, engineVars, corrupted, opened, blockVars, options>>

NextLoop ==
    \/ Generate
    \/ Flush
    \/ \E out \in LoopOutputs : Apply(out)
    \/ Install

SpecLoop == LoopInit /\ [][NextLoop]_vars

(***************************************************************************)
(* BlockBuilder.  A byte vector is kept as its runs: a sequence of         *)
(* <<byte, count>> with count >= 1 in which neighbours differ in the byte, *)
(* so that a vector of more than 2^16 bytes is one value of the model.     *)
(***************************************************************************)
SIZEOF_U16 == 2

Run(b, n) == IF n = 0 THEN <<>> ELSE <<<<b, n>>>>

RECURSIVE VecLen(_)
VecLen(v) == IF v = <<>> THEN 0 ELSE v[1][2] + VecLen(Tail(v))

\* BufMut::put of a slice: v followed by w
Put(v, w) ==
    IF v = <<>> THEN w
    ELSE IF w = <<>> THEN v
    ELSE IF v[Len(v)][1] = w[1][1]
    THEN SubSeq(v, 1, Len(v) - 1) \o <<<<w[1][1], v[Len(v)][2] + w[1][2]>>>> \o Tail(w)
    ELSE v \o w

\* n as u16
AsU16(n) == n % 65536

\* BufMut::put_u16: two bytes, the high one first
PutU16(v, x) == Put(Put(v, Run(x \div 256, 1)), Run(x % 256, 1))

RECURSIVE VecDrop(_, _)
VecDrop(v, n) ==
    IF n = 0 \/ v = <<>> THEN v
    ELSE IF v[1][2] <= n THEN VecDrop(Tail(v), n - v[1][2])
    ELSE <<<<v[1][1], v[1][2] - n>>>> \o Tail(v)

RECURSIVE VecTake(_, _)
VecTake(v, n) ==
    IF n = 0 \/ v = <<>> THEN <<>>
    ELSE IF v[1][2] <= n THEN <<v[1]>> \o VecTake(Tail(v), n - v[1][2])
    ELSE <<<<v[1][1], n>>>>

\* the n bytes of v from position from on, positions counted from 0
Slice(v, from, n) == VecTake(VecDrop(v, from), n)

MaxAdds == 3

BlockSizes == {0, 16, 24, 70000}

KeyLens == {0, 1, 2, 65536}

ValueLens == {0, 3, 65531}

Keys == {Run(97, n) : n \in KeyLens}

Values == {Run(120, n) : n \in ValueLens}

\* lines 54-56
EstimatedSize(dat, offs) == VecLen(dat) + Len(offs) * SIZEOF_U16 + SIZEOF_U16

\* lines 86-88
IsEmpty(dat) == dat = <<>>

\* a builder that turns away an entry also when it holds none
AddRejectsAlsoEmpty(total_size, size, empty) == total_size >= size

\* a builder that takes an entry that fills the block to its size
AddRejectsLate(total_size, size, empty) == total_size > size /\ ~empty

\* line 66
AddRejects(total_size, size, empty) == total_size >= size /\ ~empty

\* BlockBuilder::new(block_size)
BlockOnlyInit ==
    /\ ManifestInit
    /\ options = NoOptions
    /\ levels = <<>>
    /\ task = NoTask
    /\ ApplyInit
    /\ BlockInit
    /\ block_size \in BlockSizes

\* BlockBuilder::add
Add(key, value) ==
    /\ block = NoBlock
    /\ ret.calls < MaxAdds
    /\ LET total_size == EstimatedSize(data, offsets) + VecLen(key) + VecLen(value)
                             + 3 * SIZEOF_U16
           rejected   == AddRejects(total_size, block_size, IsEmpty(data))
       IN  /\ ret' = [calls |-> ret.calls + 1, key |-> key, value |-> value,
                      accepted |-> ~rejected]
           /\ IF rejected
              THEN UNCHANGED <<offsets, data, first_key, added>>
              ELSE /\ first_key' = IF VecLen(data) = 0 THEN key ELSE first_key
                   /\ offsets' = Append(offsets, AsU16(VecLen(data)))
                   /\ data' = Put(PutU16(Put(PutU16(data, AsU16(VecLen(key))), key),
                                         AsU16(VecLen(value))), value)
                   /\ added' = Append(added, [key |-> key, value |-> value])
    /\ UNCHANGED <<manifestVars, engineVars, corrupted, opened, tieredVars, applyVars,
                   block_size, block>>

\* BlockBuilder::build
Build ==
    /\ block = NoBlock
    /\ block' = IF IsEmpty(data)
                THEN [kind |-> "Panic", data |-> <<>>, offsets |-> <<>>]
                ELSE [kind |-> "Ok", data |-> data, offsets |-> offsets]
    /\ UNCHANGED <<manifestVars, engineVars, corrupted, opened, tieredVars, applyVars,
                   offsets, data, block_size, first_key, added, ret>>

NextBlock ==
    \/ \E key \in Keys, value \in Values : Add(key, value)
    \/ Build

SpecBlock == BlockOnlyInit /\ [][NextBlock]_vars

(***************************************************************************)
(* The claims about the Manifest.                                          *)
(***************************************************************************)
LogRecords == [i \in 1..Len(log) |-> log[i].rec]

Recovered == result.kind # "None"

\* every call of add_record* begun so far has returned Ok
AllReturnedOk == started = Len(log) /\ \A i \in 1..Len(log) : log[i].acked

\* every write call took its whole buffer
NoShortWrite == \A i \in 1..Len(log) : log[i].k = log[i].len

\* no crash has cut a written frame
NoTornFrame == \A i \in 1..Len(log) : log[i].n = log[i].k

\* C1: after a manifest is created and N records are written with
\* add_record_when_init, each call returning Ok, recover returns exactly those
\* N records in the order written.
C1_RoundTrip ==
    (Recovered /\ AllReturnedOk /\ corrupted = 0) => result = Outcome("Ok", LogRecords)

\* C2: a recover after a crash at any point returns, in order, every record
\* whose add_record* call had returned Ok before the crash.  Stated for the runs
\* in which every write call took its whole buffer, so that what refutes it is
\* the frame a crash cuts and not the short write of C6.
C2_CrashDurable ==
    (Recovered /\ NoShortWrite /\ corrupted = 0) =>
        /\ result.kind = "Ok"
        /\ \A i \in 1..Len(log) :
             log[i].acked => i <= Len(result.records) /\ result.records[i] = log[i].rec

\* C3: once one byte inside the serialized bytes of a written record has been
\* changed, recover fails with an error and returns no record list.
C3_CorruptionDetected == (corrupted # 0 /\ Recovered) => result.kind = "Err"

DamagedRecord ==
    SubSeq(file, FrameStart(corrupted) + 4, FrameStart(corrupted) + log[corrupted].len - 5)

\* the second record was damaged into bytes that still deserialize, and recover
\* has failed on its checksum with an error
C3_Witness ==
    /\ corrupted = 2
    /\ FromSlice(DamagedRecord).ok
    /\ result.kind = "Err"

\* C4: on a file that is not a sequence of whole frames recover returns an
\* explicit error: neither the records before the bad frame nor a panic.
C4_ExplicitError == (Recovered /\ ~WholeLog) => result.kind = "Err"

\* C5: with several threads in add_record*, the file is at every moment the
\* concatenation of the whole frames of the calls in the order in which they
\* took the file lock, and a call holds the lock from its write to the end of
\* its sync.
C5_Serialized ==
    /\ (NoTornFrame /\ corrupted = 0) => file = FramesOf(LogRecords)
    /\ \A t \in Threads : pc[t] \in {"locked", "written", "synced"} => fileLock = t

\* C6: when add_record_when_init has returned Ok, the whole frame of its record
\* is in the file and on stable storage.
C6_AtomicDurable ==
    \A i \in 1..Len(log) :
        log[i].acked =>
            /\ log[i].n = log[i].len
            /\ FrameStart(i) + log[i].len - 1 <= durable
            /\ SubSeq(file, FrameStart(i), FrameStart(i) + log[i].len - 1)
                   = Encoded(log[i].rec)

\* C7: a thread inside add_record holds the engine's state lock, and between a
\* thread's change of the metadata and its append no other thread's change or
\* add_record append takes place.
C7_LockProof ==
    /\ \A t \in Threads : (via[t] = "add_record" /\ pc[t] # "idle") => guard[t] = "state"
    /\ ~interleaved

\* checks of the model itself
WholeLogRecovers == (Recovered /\ WholeLog /\ corrupted = 0) => result = Outcome("Ok", LogRecords)

WholeWritesSerialized == (NoTornFrame /\ NoShortWrite /\ corrupted = 0) => C5_Serialized

OkOnlyOnWholeLog == (Recovered /\ result.kind = "Ok" /\ corrupted = 0) => WholeLog

(***************************************************************************)
(* The claims about generate_compaction_task.                              *)
(***************************************************************************)
Generated == task # NoTask

EnoughTiers == Len(levels) >= options.num_tiers

\* C8: generate_compaction_task returns no task exactly when the snapshot has
\* fewer tiers than num_tiers; on every other snapshot, also one with empty
\* tiers or with no tier, it returns a task.
C8_TaskIffEnoughTiers ==
    Generated =>
        /\ task.kind = "None" <=> ~EnoughTiers
        /\ EnoughTiers => task.kind = "Some"

\* the tables of all tiers but the last, and of the last one
UpperSize == SumLen(levels, Len(levels) - 1)

BottomSize == TierLen(levels, Len(levels) - 1)

\* C9: when UpperSize / BottomSize * 100 >= max_size_amplification_percent,
\* equality included, the task selects all tiers in order with
\* bottom_tier_included = true, whatever the size ratios are.
C9_SpaceAmpPriority ==
    (/\ Generated
     /\ EnoughTiers
     /\ Len(levels) >= 1
     /\ BottomSize > 0
     /\ 100 * UpperSize >= options.max_size_amplification_percent * BottomSize)
        => task = SomeTask(levels, TRUE)

\* size(tier i) / (size of tiers 0..i-1) > (100 + size_ratio) / 100, and
\* i >= min_merge_width
RatioExceeded(i) ==
    /\ 100 * TierLen(levels, i) > (100 + options.size_ratio) * SumLen(levels, i)
    /\ i >= options.min_merge_width

FirstExceeded ==
    IF \E i \in 1..(Len(levels) - 1) : RatioExceeded(i)
    THEN CHOOSE i \in 1..(Len(levels) - 1) :
             RatioExceeded(i) /\ \A j \in 1..(i - 1) : ~RatioExceeded(j)
    ELSE 0

\* C10: when the snapshot has at least num_tiers tiers and the space
\* amplification trigger does not fire, the size ratio trigger fires at the
\* smallest index i >= 1 whose tier is more than (100 + size_ratio)/100 times
\* all earlier tiers together and that is at least min_merge_width, and at no
\* index when there is none; the task then selects exactly the tiers 0..i-1 in
\* order, without the last tier, with bottom_tier_included = false.
C10_SizeRatio ==
    (Generated /\ EnoughTiers /\ Len(levels) >= 1 /\ ~SpaceAmpFires(options, levels)) =>
        /\ SizeRatioScan(options, levels, 1, TierLen(levels, 0)) = FirstExceeded
        /\ FirstExceeded # 0 =>
              /\ task = SomeTask(SubSeq(levels, 1, FirstExceeded), FALSE)
              /\ \A k \in 1..Len(task.tiers) : task.tiers[k] # levels[Len(levels)]

\* sizes [10, 10, 50] with size_ratio 100 and min_merge_width 2: tiers 0 and 1
C10_Witness ==
    /\ Len(levels) = 3
    /\ TierLen(levels, 0) = 10 /\ TierLen(levels, 1) = 10 /\ TierLen(levels, 2) = 50
    /\ options.size_ratio = 100 /\ options.min_merge_width = 2
    /\ options.max_size_amplification_percent = 200
    /\ task = SomeTask(SubSeq(levels, 1, 2), FALSE)

\* min(max_merge_width, tier count); the tier count when max_merge_width is unset
FallbackWidth ==
    IF options.max_merge_width = <<>> THEN Len(levels)
    ELSE IF options.max_merge_width[1] <= Len(levels) THEN options.max_merge_width[1]
    ELSE Len(levels)

NoTriggerFires ==
    /\ ~SpaceAmpFires(options, levels)
    /\ SizeRatioScan(options, levels, 1, TierLen(levels, 0)) = 0

\* C11: when the snapshot has at least num_tiers tiers and neither trigger
\* fires, the task selects the first k = min(max_merge_width, tier count) tiers
\* in order, k being the tier count when max_merge_width is unset, and
\* bottom_tier_included is true exactly when k is the tier count, which is
\* exactly when the last tier is among the selected ones.
C11_Fallback ==
    (Generated /\ EnoughTiers /\ Len(levels) >= 1 /\ NoTriggerFires) =>
        /\ task.kind = "Some"
        /\ task.tiers = SubSeq(levels, 1, FallbackWidth)
        /\ task.bottom_tier_included <=> (FallbackWidth = Len(levels))
        /\ task.bottom_tier_included <=>
               \E k \in 1..Len(task.tiers) : task.tiers[k] = levels[Len(levels)]

\* sizes [10, 10, 25] with max_merge_width 2: no trigger fires, tiers 0 and 1
C11_Witness ==
    /\ Len(levels) = 3
    /\ TierLen(levels, 0) = 10 /\ TierLen(levels, 1) = 10 /\ TierLen(levels, 2) = 25
    /\ options.max_merge_width = <<2>>
    /\ NoTriggerFires
    /\ task = SomeTask(SubSeq(levels, 1, 2), FALSE)

(***************************************************************************)
(* The claims about apply_compaction_result.                               *)
(***************************************************************************)
Applied == applied # NoApplied

InTask(tier) == \E k \in 1..Len(task.tiers) : task.tiers[k] = tier

\* every tier of the task is in the snapshot with the same file list
TaskMatches ==
    \A k \in 1..Len(task.tiers) : \E i \in 1..Len(levels) : levels[i] = task.tiers[k]

\* (a) a tier id of the task is not in the snapshot, or (b) it is there with
\* another file list
TaskStale ==
    \E k \in 1..Len(task.tiers) :
        \/ \A i \in 1..Len(levels) : levels[i][1] # task.tiers[k][1]
        \/ \E i \in 1..Len(levels) :
               levels[i][1] = task.tiers[k][1] /\ levels[i][2] # task.tiers[k][2]

IsTaskTier(tier) == InTask(tier)

IsKeptTier(tier) == ~InTask(tier)

RECURSIVE FilesOf(_)
FilesOf(tiers) == IF tiers = <<>> THEN <<>> ELSE Head(tiers)[2] \o FilesOf(Tail(tiers))

KeptTiers == SelectSeq(levels, IsKeptTier)

LastTaskPos == CHOOSE i \in 1..Len(levels) :
                   InTask(levels[i]) /\ \A j \in (i + 1)..Len(levels) : ~InTask(levels[j])

\* the tiers that stay, with the new tier after the first p of them
Spliced(p) ==
    SubSeq(KeptTiers, 1, p) \o <<<<output[1], output>>>> \o SubSeq(KeptTiers, p + 1, Len(KeptTiers))

\* C12: for a task whose tiers are all in the snapshot with equal file lists and
\* a non-empty output, the new snapshot is the snapshot's tiers that are not in
\* the task, unchanged and in order, plus exactly one new tier
\* (output[0], output) at the place of the last task tier, and the removed ids
\* are the files of the task's tiers in snapshot order.
C12_ApplyResult ==
    (Applied /\ TaskMatches /\ output # <<>>) =>
        /\ applied.kind = "Ok"
        /\ applied.removed = FilesOf(SelectSeq(levels, IsTaskTier))
        /\ \E p \in 0..Len(KeptTiers) : applied.levels = Spliced(p)
        /\ task.tiers # <<>> =>
              applied.levels = Spliced(Len(SelectSeq(SubSeq(levels, 1, LastTaskPos), IsKeptTier)))

\* the same for the tasks that hold a tier
ApplyOnNonEmptyTask == task.tiers # <<>> => C12_ApplyResult

\* C13: apply_compaction_result fails fatally and returns no snapshot whenever
\* (a) a tier id of the task is not in the snapshot or (b) a tier id of the
\* task is in the snapshot with another file list.
C13_StaleTaskFails == (Applied /\ TaskStale) => applied.kind = "Panic"

\* a task whose only fault is a file list that differs has made the call panic
C13_Witness ==
    /\ Applied
    /\ output # <<>>
    /\ Len(task.tiers) = 2
    /\ \A k \in 1..2 : \E i \in 1..Len(levels) : levels[i][1] = task.tiers[k][1]
    /\ TaskStale
    /\ applied.kind = "Panic"

\* C14: generate_compaction_task and apply_compaction_result leave the snapshot
\* they were handed, tier list and file lists, and the controller's options as
\* they were, whether the call succeeds or panics; what apply_compaction_result
\* makes is a new value.
C14_Pure ==
    [][(task' # task \/ applied' # applied) => (levels' = levels /\ options' = options)]_vars

\* a successful apply has made a snapshot other than the one it was handed
C14_Witness ==
    /\ Applied
    /\ applied.kind = "Ok"
    /\ levels # <<>>
    /\ applied.levels # levels

(***************************************************************************)
(* The claims about the compaction loop.                                   *)
(***************************************************************************)
RECURSIVE ToSet(_)
ToSet(seq) == IF seq = <<>> THEN {} ELSE {Head(seq)} \cup ToSet(Tail(seq))

NoDuplicate(seq) == Cardinality(ToSet(seq)) = Len(seq)

MergedTier == <<output[1], output>>

\* C19: when tiers with fresh ids were put in front of the snapshot after the
\* task was made, apply_compaction_result on the new snapshot succeeds, keeps
\* the new tiers unchanged and in order ahead of the merged tier, and the
\* tables of the result are those of the snapshot without the removed ones plus
\* the output, none lost and none twice.
C19_FlushInterleaved ==
    (Applied /\ output # <<>>) =>
        /\ applied.kind = "Ok"
        /\ Len(applied.levels) > flushes
        /\ SubSeq(applied.levels, 1, flushes) = SubSeq(levels, 1, flushes)
        /\ \E p \in (flushes + 1)..Len(applied.levels) : applied.levels[p] = MergedTier
        /\ \A p \in 1..flushes : applied.levels[p] # MergedTier
        /\ ToSet(FilesOf(applied.levels))
              = (ToSet(FilesOf(levels)) \ ToSet(applied.removed)) \cup ToSet(output)
        /\ NoDuplicate(FilesOf(applied.levels))

\* the same for the tasks that hold a tier
FlushInterleavedNonEmptyTask == task.tiers # <<>> => C19_FlushInterleaved

\* C20: the loop of generate_compaction_task and apply_compaction_result without
\* a flush comes to a snapshot with no task: every task that is applied leaves
\* strictly fewer tiers than before.
C20_EveryRoundShrinks ==
    [][(rounds' = rounds + 1 /\ flushes = 0) => Len(levels') < Len(levels)]_vars

(***************************************************************************)
(* The claim about appends to a recovered Manifest.                        *)
(***************************************************************************)
\* this step is a recover on a file to which an earlier recover gave the handle
RecoverAgain ==
    /\ handle = "closed"
    /\ opened.kind = "Ok"
    /\ Len(opened.records) >= 1
    /\ Len(log) > Len(opened.records)
    /\ file' = file
    /\ result' # NoResult

\* C18: when a log holding R1..Rn is recovered and S1..Sm are then appended
\* through the handle, every call returning Ok, the first n frames stay as they
\* were, the new frames follow them and the next recover returns
\* R1..Rn, S1..Sm in this order, round after round.
C18_AppendAfterRecovery ==
    [][(RecoverAgain /\ AllReturnedOk /\ corrupted = 0) =>
           /\ SubSeq(file, 1, Len(opened.file)) = opened.file
           /\ SubSeq(LogRecords, 1, Len(opened.records)) = opened.records
           /\ result' = Outcome("Ok", LogRecords)]_vars

\* the same when every write call takes its whole buffer
WholeAppendsAfterRecovery ==
    [][(RecoverAgain /\ AllReturnedOk /\ NoShortWrite /\ corrupted = 0) =>
           /\ SubSeq(file, 1, Len(opened.file)) = opened.file
           /\ SubSeq(LogRecords, 1, Len(opened.records)) = opened.records
           /\ result' = Outcome("Ok", LogRecords)]_vars

(***************************************************************************)
(* The claims about the BlockBuilder.                                      *)
(***************************************************************************)
\* this step is a call of add
AddStep == ret'.calls = ret.calls + 1

\* data length + 2 * number of offsets + 2
SerializedSize == VecLen(data) + 2 * Len(offsets) + 2

\* C15: add returns false exactly when the builder holds an entry and its
\* serialized size plus key length, value length and 6 is at least
\* target_block_size; on an empty builder it accepts whatever the sizes are; a
\* rejected add leaves data, offsets and first key as they were.
C15_AddRejectsWhenFull ==
    [][AddStep =>
          /\ ~ret'.accepted <=>
                 (/\ Len(added) >= 1
                  /\ SerializedSize + VecLen(ret'.key) + VecLen(ret'.value) + 6 >= block_size)
          /\ Len(added) = 0 => ret'.accepted
          /\ ~ret'.accepted => (data' = data /\ offsets' = offsets /\ first_key' = first_key)
          /\ ret'.accepted => added' = Append(added, [key |-> ret'.key, value |-> ret'.value])]_vars

\* add has turned an entry away from a builder that holds one
C15_Witness ==
    /\ ret.calls >= 2
    /\ ~ret.accepted
    /\ Len(added) >= 1
    /\ block_size > 0

RECURSIVE KeyLess(_, _)
KeyLess(a, b) ==
    IF b = <<>> THEN FALSE
    ELSE IF a = <<>> THEN TRUE
    ELSE IF a[1][1] # b[1][1] THEN a[1][1] < b[1][1]
    ELSE IF a[1][2] = b[1][2] THEN KeyLess(Tail(a), Tail(b))
    ELSE IF a[1][2] < b[1][2]
    THEN KeyLess(Tail(a), <<<<b[1][1], b[1][2] - a[1][2]>>>> \o Tail(b))
    ELSE KeyLess(<<<<a[1][1], a[1][2] - b[1][2]>>>> \o Tail(a), Tail(b))

KeysIncrease == \A i \in 1..(Len(added) - 1) : KeyLess(added[i].key, added[i + 1].key)

EntryLen(i) == 2 + VecLen(added[i].key) + 2 + VecLen(added[i].value)

\* the position in data at which entry i starts
RECURSIVE EntryStart(_)
EntryStart(i) == IF i = 1 THEN 0 ELSE EntryStart(i - 1) + EntryLen(i - 1)

\* the value of the two bytes of v at position p, the high one first
U16At(v, p) ==
    LET hi == Slice(v, p, 1)
        lo == Slice(v, p + 1, 1)
    IN  IF hi = <<>> \/ lo = <<>> THEN -1 ELSE hi[1][1] * 256 + lo[1][1]

\* offsets[i] is where entry i starts, and the bytes there are
\* [key length][key][value length][value] of the i-th pair
EntryReproduced(i) ==
    LET p == block.offsets[i]
        k == added[i].key
        v == added[i].value
    IN  /\ p = EntryStart(i)
        /\ U16At(block.data, p) = VecLen(k)
        /\ Slice(block.data, p + 2, VecLen(k)) = k
        /\ U16At(block.data, p + 2 + VecLen(k)) = VecLen(v)
        /\ Slice(block.data, p + 4 + VecLen(k), VecLen(v)) = v

\* C16: when the keys added are strictly increasing and the projected size
\* stays under target_block_size, every add is accepted and build returns a
\* block that reproduces the entries in order, offsets[i] being the start of
\* entry i in data, for all sizes, also past what two bytes can hold.
C16_BuildReproduces ==
    /\ (ret.calls >= 1 /\ ~ret.accepted) =>
           SerializedSize + VecLen(ret.key) + VecLen(ret.value) + 6 >= block_size
    /\ (block.kind = "Ok" /\ KeysIncrease /\ SerializedSize < block_size) =>
           /\ Len(block.offsets) = Len(added)
           /\ \A i \in 1..Len(added) : EntryReproduced(i)

\* the same for the blocks whose data two bytes can address
SmallBlocksReproduced == VecLen(data) < 65536 => C16_BuildReproduces

\* C17: a builder that holds two or more entries has a serialized size below
\* target_block_size; every block build returns holds an entry, and build on a
\* builder without an entry fails fatally.
C17_SizeBelowTarget ==
    /\ Len(added) >= 2 => VecLen(data) + 2 * Len(added) + 2 < block_size
    /\ block.kind = "Ok" => (Len(added) >= 1 /\ Len(block.offsets) >= 1)
    /\ (block # NoBlock /\ Len(added) = 0) => block.kind = "Panic"

\* a block of two entries has been built
C17_Witness ==
    /\ block.kind = "Ok"
    /\ Len(added) >= 2
====
